---- MODULE Spec2Model ----
(***************************************************************************)
(* Offline synchronization engine of the salesman portal                   *)
(* (src/lib/offline/offlineService.ts): the IndexedDB stores, the sync     *)
(* queue, syncAll (drain, then refresh), the reachability handlers, the    *)
(* periodic timer, createOfflineOrder and the status broadcaster.          *)
(*                                                                         *)
(* One step of a pass is one awaited call: the transaction (or remote      *)
(* call) it waits for, and the code that runs when it settles, up to the   *)
(* next await.  JavaScript runs these steps one at a time, and IndexedDB   *)
(* runs transactions on one store in creation order.                       *)
(***************************************************************************)
EXTENDS Integers, Sequences, FiniteSets, TLC

\* ---------------------------------------------------------------- bounds
MaxItems == 2        \* queue items ever added (autoincrement keys 1..MaxItems)
MaxClock == 1        \* Date.now() readings 0..MaxClock
MaxCreates == 2      \* createOfflineOrder calls
MaxOutbox == 2       \* status reads not yet delivered to the listeners
MaxFaults == 1       \* IndexedDB request errors injected

\* ------------------------------------------------------ program constants
DefaultMaxRetryAttempts == 3      \* SYNC_CONFIG.maxRetryAttempts default
TaxPercent == 15                  \* subtotal * 0.15
RetryConfigs == {1, DefaultMaxRetryAttempts}   \* NEXT_PUBLIC_MAX_RETRY_ATTEMPTS

\* the (type, action) pairs callers put in the queue: every type, every action,
\* and every way processSyncItem treats an item
Kinds == {<<"order", "create">>, <<"order", "delete">>, <<"customer", "update">>,
          <<"customer", "delete">>, <<"product", "create">>}
Slots == 1..2        \* activations of syncAll that can be suspended at once
NoRef == <<"none", 0>>

VARIABLES
  maxRetryAttempts,  \* SYNC_CONFIG.maxRetryAttempts
  boot,              \* initializeOfflineMode: "constructed", "ready", "failed"
  db,                \* module variable db: TRUE iff it holds an open database
  isOnline,          \* OfflineService.isOnline
  syncInProgress,    \* OfflineService.syncInProgress
  syncInterval,      \* TRUE iff OfflineService.syncInterval holds a timer
  queue,             \* object store sync_queue: key -> item
  nextId,            \* key generator of sync_queue (autoIncrement)
  orders,            \* object store orders: id -> record
  customers,         \* object store customers
  products,          \* object store products
  now,               \* Date.now()
  pass,              \* the suspended activations of syncAll, per slot
  task,              \* a caller of createOfflineOrder / getLocalOrderById
  outbox,            \* getSyncStatus reads started by notifyListeners, not yet settled
  faults,            \* IndexedDB request errors so far
  call,              \* the flags seen by the syncAll invocation of the last step, if any
  stats,             \* per queue key: dispatches, failed deliveries, successful delivery, completion
  created,           \* createOfflineOrder calls whose saveOrderLocally succeeded
  enqueuedFor,       \* clock readings whose order has had its create item added
  lastEnd,           \* how the last pass ended
  remote,            \* the version of the dataset the Remote Service holds
  listener,          \* a subscriber: registered or not, and whether a status reached it
  cleaned,           \* TRUE iff cleanup() has been called
  refreshes,         \* what the observed refresh runs fetched and left in the stores
  reply              \* how the last store call made while no database was open ended

vars == <<maxRetryAttempts, boot, db, isOnline, syncInProgress, syncInterval,
          queue, nextId, orders, customers, products, now, pass, task, outbox,
          faults, call, stats, created, enqueuedFor, lastEnd, remote, listener,
          cleaned, refreshes, reply>>

\* every variable but call
allButCall == <<maxRetryAttempts, boot, db, isOnline, syncInProgress, syncInterval,
          queue, nextId, orders, customers, products, now, pass, task, outbox,
          faults, stats, created, enqueuedFor, lastEnd, remote, listener,
          cleaned, refreshes, reply>>

\* groups of variables, for the frames of the actions
service == <<maxRetryAttempts, boot, db, isOnline, syncInterval>>
stores == <<orders, customers, products>>
creator == <<now, task, created, enqueuedFor>>
rest == <<remote, listener, cleaned, refreshes, reply>>

\* ------------------------------------------------------------- helpers
RECURSIVE SeqSum(_)
SeqSum(s) == IF s = <<>> THEN 0 ELSE Head(s) + SeqSum(Tail(s))

RECURSIVE Ascending(_)
\* the elements of a finite set of integers, smallest first
Ascending(S) ==
  IF S = {} THEN <<>>
  ELSE LET m == CHOOSE x \in S : \A y \in S : x <= y
       IN <<m>> \o Ascending(S \ {m})

RECURSIVE Descending(_)
Descending(S) ==
  IF S = {} THEN <<>>
  ELSE LET m == CHOOSE x \in S : \A y \in S : x >= y
       IN <<m>> \o Descending(S \ {m})

\* store.put(rec) / store.delete(key) on an object store keyed by id
PutAsNew(store, key, rec) ==
  LET fresh == <<"copy", Cardinality(DOMAIN store)>>
  IN [k \in DOMAIN store \cup {fresh} |-> IF k = fresh THEN rec ELSE store[k]]

RemoveNothing(store, key) == store

PutClearing(store, key, rec) == [k \in {key} |-> rec]

Put(store, key, rec) == [k \in DOMAIN store \cup {key} |-> IF k = key THEN rec ELSE store[k]]
Remove(store, key) == [k \in DOMAIN store \ {key} |-> store[k]]
Empty == [k \in {} |-> 0]

\* ------------------------------------------------- createOfflineOrder
\* Drafts handed to createOfflineOrder: sequences of lines; discount is a
\* percentage (0..100) and may be absent from a line.
Drafts ==
  << << [quantity |-> 2, unitPrice |-> 100] >>,
     << [quantity |-> 1, unitPrice |-> 200, discount |-> 10] >>,
     << [quantity |-> 3, unitPrice |-> 50, discount |-> 50],
        [quantity |-> 1, unitPrice |-> 100, discount |-> 0] >> >>
DraftIds == 1..Len(Drafts)

\* item.discount || 0
DiscountOf(item) == IF "discount" \in DOMAIN item THEN item.discount ELSE 0

\* Amounts are exact: a line subtotal is kept in hundredths, tax and total in
\* ten-thousandths of the currency unit.
\* subtotalBeforeDiscount - subtotalBeforeDiscount * discount / 100, in hundredths
LineSubtotal(item) ==
  LET subtotalBeforeDiscount == item.quantity * item.unitPrice
      discountAmount == subtotalBeforeDiscount * DiscountOf(item)
  IN subtotalBeforeDiscount * 100 - discountAmount

\* the order record built by createOfflineOrder from draft d at clock reading t
OfflineId(t) == <<"offline", t>>

OfflineOrder(d, t) ==
  LET itemsWithCalculations == [k \in 1..Len(Drafts[d]) |-> LineSubtotal(Drafts[d][k])]
      subtotal == SeqSum(itemsWithCalculations)
      tax == subtotal * TaxPercent
      total == subtotal * 100 + tax
  IN [id |-> OfflineId(t), draft |-> d, subtotal |-> subtotal, tax |-> tax,
      total |-> total, status |-> "pending", syncStatus |-> "pending"]

\* ---------------------------------------------------------- sync queue
\* the object added by addToSyncQueue
NewItem(type, action, ref) ==
  [type |-> type, action |-> action, ref |-> ref,
   retryCount |-> 0, status |-> "pending", error |-> ""]

\* index('status').getAll('pending'): the pending items, in primary key order
KeysNotCompleted(q) == {k \in DOMAIN q : q[k].status # "completed"}

KeysPendingOrFailed(q) == {k \in DOMAIN q : q[k].status \in {"pending", "failed"}}

PendingKeys(q) == {k \in DOMAIN q : q[k].status = "pending"}

SnapshotOf(q, keys) ==
  [n \in 1..Len(keys) |->
     [id |-> keys[n], type |-> q[keys[n]].type, action |-> q[keys[n]].action,
      retryCount |-> q[keys[n]].retryCount]]

PendingItemsReversed(q) == SnapshotOf(q, Descending(PendingKeys(q)))

PendingItemsAnyStatus(q) == SnapshotOf(q, Ascending(DOMAIN q))

PendingItems(q) == SnapshotOf(q, Ascending(PendingKeys(q)))

\* updateQueueItemStatus on an item that exists
UpdatedItemCountsEvery(item, status, error) ==
  [item EXCEPT !.status = status,
               !.error = IF error # "" THEN error ELSE @,
               !.retryCount = @ + 1]

UpdatedItemRequeues(item, status, error) ==
  [item EXCEPT !.status = IF status = "failed" THEN "pending" ELSE status,
               !.error = IF error # "" THEN error ELSE @,
               !.retryCount = IF status = "failed" THEN @ + 1 ELSE @]

UpdatedItem(item, status, error) ==
  [item EXCEPT !.status = status,
               !.error = IF error # "" THEN error ELSE @,
               !.retryCount = IF status = "failed" THEN @ + 1 ELSE @]

\* processSyncItem: the Remote Service method an item is dispatched to
RemoteMethod(type, action) ==
  CASE type = "order" /\ action = "create" -> "createOrder"
    [] type = "order" /\ action = "update" -> "updateOrder"
    [] type = "order" /\ action = "delete" -> "cancelOrder"
    [] type = "customer" /\ action = "create" -> "createCustomer"
    [] type = "customer" /\ action = "update" -> "updateCustomer"
    [] OTHER -> "none"

\* cancelOrder catches its error and returns false; the others rethrow
Rethrows(method) == method # "cancelOrder"

\* the guard of syncAll: TRUE iff the call returns at once
SyncGuardIgnoresBusy(online, busy) == ~online

SyncGuardIgnoresOnline(online, busy) == busy

SyncGuard(online, busy) == ~online \/ busy

\* --------------------------------------------------------- remote data
\* versions of the remote dataset; generateMockOrders draws the content of its
\* orders afresh at every call, under the same ids
Versions == 1..2
VersionStatus(v) == IF v = 1 THEN "shipping" ELSE "received"

\* downloadServerData fetches orders, customers, products, in this order
Phases == 3

\* the first page of getOrders / getCustomers / getProducts at dataset version v
ServerData(v) ==
  << << [id |-> <<"order", 1>>, draft |-> 0, subtotal |-> 0, tax |-> 0, total |-> 0,
         status |-> VersionStatus(v), syncStatus |-> "synced"] >>,
     << [id |-> <<"customer", 1>>] >>,
     << [id |-> <<"product", 1>>] >> >>


\* ------------------------------------------------------------ the state
IdlePass == [pc |-> "idle", items |-> <<>>, i |-> 0, sent |-> <<>>, err |-> "", ph |-> 0, j |-> 0,
             data |-> <<>>]
IdleTask == [stage |-> "idle", draft |-> 0, t |-> 0, refs |-> 0, got |-> <<>>]
NoStats == [dispatches |-> 0, failures |-> 0, delivered |-> FALSE, completed |-> FALSE]
NoCall == <<>>
\* a subscriber: in the listeners set or not, handed a status since it was
\* added or not, the places in outbox of the reads its subscribe calls started,
\* and whether it has been called while it was not in the set
NoListener == [registered |-> FALSE, got |-> FALSE, direct |-> {}, late |-> FALSE]
\* no store call has been made on a closed database
NoReply == [op |-> "none", error |-> "", n |-> 0]
\* refresh runs are not observed / are observed and none has completed
Unobserved == [on |-> FALSE, after |-> <<>>, prev |-> <<>>, cur |-> <<>>]
Observed == [Unobserved EXCEPT !.on = TRUE]

\* the state after construction with maxRetryAttempts = cfg, on a database
\* whose stores hold o, c and p; watch tells whether refresh runs are observed
InitFrom(cfg, o, c, p, watch) ==
  /\ maxRetryAttempts = cfg
  /\ boot = "constructed"
  /\ db = FALSE
  /\ isOnline = TRUE
  /\ syncInProgress = FALSE
  /\ syncInterval = FALSE
  /\ queue = Empty
  /\ nextId = 1
  /\ orders = o
  /\ customers = c
  /\ products = p
  /\ now = 0
  /\ pass = [s \in Slots |-> IdlePass]
  /\ task = IdleTask
  /\ outbox = <<>>
  /\ faults = 0
  /\ call = NoCall
  /\ stats = [k \in 1..MaxItems |-> NoStats]
  /\ created = 0
  /\ enqueuedFor = {}
  /\ lastEnd = [left |-> 0, open |-> TRUE]
  /\ remote = 1
  /\ listener = NoListener
  /\ cleaned = FALSE
  /\ refreshes = watch
  /\ reply = NoReply

\* the state after construction, on a database that does not exist yet,
\* with maxRetryAttempts = cfg
InitWith(cfg) == InitFrom(cfg, Empty, Empty, Empty, Unobserved)

\* the default configuration
Init == InitWith(DefaultMaxRetryAttempts)

\* NEXT_PUBLIC_MAX_RETRY_ATTEMPTS set or not
InitConfigured == \E cfg \in RetryConfigs : InitWith(cfg)

\* contents an earlier session can have left in the stores: nothing, an older
\* copy of a server record, an order created offline
StaleOrder == [ServerData(1)[1][1] EXCEPT !.status = "pending"]
InitialOrders ==
  {Empty,
   Put(Empty, StaleOrder.id, StaleOrder),
   Put(Empty, OfflineId(0), OfflineOrder(1, 0)),
   Put(Put(Empty, StaleOrder.id, StaleOrder), OfflineId(0), OfflineOrder(1, 0))}
InitialCustomers ==
  {Empty, Put(Empty, <<"customer", 1>>, [id |-> <<"customer", 1>>, name |-> "old"])}
InitialProducts ==
  {Empty, Put(Empty, <<"product", 2>>, [id |-> <<"product", 2>>])}

\* construction on a database of an earlier session, refresh runs observed
InitRefresh ==
  \E o \in InitialOrders, c \in InitialCustomers, p \in InitialProducts :
    InitFrom(DefaultMaxRetryAttempts, o, c, p, Observed)

\* the outcomes of an IndexedDB write request: TRUE is onsuccess, FALSE is onerror
IoOutcomes == IF faults < MaxFaults THEN {TRUE, FALSE} ELSE {TRUE}
Io(io) == faults' = IF db /\ ~io THEN faults + 1 ELSE faults

\* getSyncStatus: the pending count of the queue read it starts
PendingCount(q) == Len(PendingItems(q))

\* notifyListeners with db open iff `open`: starts a getSyncStatus read, which
\* rejects when db is null
Notify(ob, open, q) == IF open THEN Append(ob, PendingCount(q)) ELSE ob

\* at most MaxOutbox status reads are outstanding
Room(n) == Len(outbox) + n <= MaxOutbox

\* a transaction on sync_queue completes after the status reads started before it
QueueTurn == outbox = <<>>

ActiveSlots == {s \in Slots : pass[s].pc # "idle"}

\* message of the error a failed queue write rejects with
WriteError(id) ==
  IF ~db THEN "Database not initialized"
  ELSE IF id \notin DOMAIN queue THEN "Queue item not found"
  ELSE "request error"

\* -------------------------------------------------------------- syncAll
\* syncAll() called by `by`, seeing isOnline = online and db open iff `open`, with ob
\* the status reads outstanding at the call.  Runs to the first await that
\* suspends: the guard, the flag, the broadcast and the start of the
\* getPendingQueueItems read.
syncAll(by, online, open, ob) ==
  /\ call' = << [by |-> by, online |-> online, busy |-> syncInProgress] >>
  /\ lastEnd' = lastEnd
  /\ IF SyncGuard(online, syncInProgress)
       THEN /\ syncInProgress' = syncInProgress
            /\ pass' = pass
            /\ outbox' = ob
       ELSE IF ~open
         THEN \* getPendingQueueItems throws; catch, finally
              /\ syncInProgress' = FALSE
              /\ pass' = pass
              /\ outbox' = ob
         ELSE /\ Slots \ ActiveSlots # {}
              /\ LET s == CHOOSE x \in Slots \ ActiveSlots : \A y \in Slots \ ActiveSlots : x <= y
                     items == PendingItems(queue)
                 IN pass' = [pass EXCEPT ![s] =
                       [IdlePass EXCEPT !.pc = IF items = <<>> THEN "dl" ELSE "drain",
                                        !.items = items, !.i = 1,
                                        !.ph = IF items = <<>> THEN 1 ELSE 0]]
              /\ syncInProgress' = TRUE
              /\ outbox' = Append(ob, PendingCount(queue))

\* the finally block of syncAll, in slot s, with `left` fetched items not reached
EndPassKeepsFlag(s, q, left) ==
  /\ syncInProgress' = syncInProgress
  /\ outbox' = Notify(outbox, db, q)
  /\ pass' = [pass EXCEPT ![s] = IdlePass]
  /\ lastEnd' = [left |-> left, open |-> db]

EndPass(s, q, left) ==
  /\ syncInProgress' = FALSE
  /\ outbox' = Notify(outbox, db, q)
  /\ pass' = [pass EXCEPT ![s] = IdlePass]
  /\ lastEnd' = [left |-> left, open |-> db]

\* the for loop moves to the next item, or to downloadServerData
AdvanceRefreshEarly(p) == [p EXCEPT !.i = p.i + 1, !.pc = "dl", !.ph = 1, !.err = ""]

AdvanceStopsOffline(p) ==
  IF p.i >= Len(p.items) \/ ~isOnline
    THEN [p EXCEPT !.i = p.i + 1, !.pc = "dl", !.ph = 1, !.err = ""]
    ELSE [p EXCEPT !.i = p.i + 1, !.pc = "drain", !.err = ""]

Advance(p) ==
  IF p.i >= Len(p.items)
    THEN [p EXCEPT !.i = p.i + 1, !.pc = "dl", !.ph = 1, !.err = ""]
    ELSE [p EXCEPT !.i = p.i + 1, !.pc = "drain", !.err = ""]

\* top of the loop body: the retry check, then updateQueueItemStatus(id, 'syncing')
\* and processSyncItem up to the remote call
DrainNext(s) ==
  /\ pass[s].pc = "drain"
  /\ QueueTurn
  /\ LET p == pass[s]
         it == p.items[p.i]
         exhausted == it.retryCount >= maxRetryAttempts
         method == RemoteMethod(it.type, it.action)
     IN \E io \in IoOutcomes :
          LET ok == db /\ io /\ it.id \in DOMAIN queue
              q2 == IF ~ok THEN queue
                    ELSE IF exhausted
                      THEN [queue EXCEPT ![it.id] = UpdatedItem(@, "failed", "Max retry attempts exceeded")]
                      ELSE [queue EXCEPT ![it.id] = UpdatedItem(@, "syncing", "")]
          IN /\ Io(io)
             /\ queue' = q2
             /\ IF ok
                  THEN /\ outbox' = Notify(outbox, db, q2)
                       /\ UNCHANGED <<syncInProgress, lastEnd>>
                       /\ IF exhausted
                            THEN /\ pass' = [pass EXCEPT ![s] = Advance(p)]
                                 /\ stats' = stats
                            ELSE IF method = "none"
                              THEN /\ pass' = [pass EXCEPT ![s].pc = "complete"]
                                   /\ stats' = stats
                              ELSE /\ pass' = [pass EXCEPT ![s].pc = "remote",
                                                           ![s].sent = Append(@, it.id)]
                                   /\ stats' = [stats EXCEPT ![it.id].dispatches = @ + 1]
                  ELSE /\ stats' = stats
                       /\ IF exhausted
                            THEN EndPass(s, q2, Len(p.items) - p.i)
                            ELSE /\ pass' = [pass EXCEPT ![s].pc = "recordFail",
                                                         ![s].err = WriteError(it.id)]
                                 /\ UNCHANGED <<syncInProgress, lastEnd, outbox>>
  /\ call' = NoCall
  /\ UNCHANGED <<service, nextId, stores, creator, rest>>

\* the Remote Service call of the item settles
RemoteResult(s) ==
  /\ pass[s].pc = "remote"
  /\ LET p == pass[s]
         it == p.items[p.i]
         method == RemoteMethod(it.type, it.action)
     IN \E r \in {"ok", "error"} :
          IF r = "ok" \/ ~Rethrows(method)
            THEN /\ pass' = [pass EXCEPT ![s].pc = "complete"]
                 /\ stats' = [stats EXCEPT ![it.id].delivered = @ \/ (r = "ok")]
            ELSE /\ pass' = [pass EXCEPT ![s].pc = "recordFail", ![s].err = "remote error"]
                 /\ stats' = [stats EXCEPT ![it.id].failures = @ + 1]
  /\ call' = NoCall
  /\ UNCHANGED <<service, syncInProgress, queue, nextId, stores, creator, outbox,
                 faults, lastEnd, rest>>

\* updateQueueItemStatus(id, 'completed')
Complete(s) ==
  /\ pass[s].pc = "complete"
  /\ QueueTurn
  /\ LET p == pass[s]
         it == p.items[p.i]
     IN \E io \in IoOutcomes :
          LET ok == db /\ io /\ it.id \in DOMAIN queue
              q2 == IF ok THEN [queue EXCEPT ![it.id] = UpdatedItem(@, "completed", "")] ELSE queue
          IN /\ Io(io)
             /\ queue' = q2
             /\ IF ok
                  THEN /\ outbox' = Notify(outbox, db, q2)
                       /\ pass' = [pass EXCEPT ![s].pc = "delete"]
                       /\ stats' = [stats EXCEPT ![it.id].completed = TRUE]
                  ELSE /\ outbox' = outbox
                       /\ pass' = [pass EXCEPT ![s].pc = "recordFail", ![s].err = WriteError(it.id)]
                       /\ stats' = stats
  /\ call' = NoCall
  /\ UNCHANGED <<service, syncInProgress, nextId, stores, creator, lastEnd, rest>>

\* deleteQueueItem(id) of the loop body
Delete(s) ==
  /\ pass[s].pc = "delete"
  /\ QueueTurn
  /\ LET p == pass[s]
         it == p.items[p.i]
     IN \E io \in IoOutcomes :
          LET ok == db /\ io
              q2 == IF ok THEN Remove(queue, it.id) ELSE queue
          IN /\ Io(io)
             /\ queue' = q2
             /\ IF ok
                  THEN /\ outbox' = Notify(outbox, db, q2)
                       /\ pass' = [pass EXCEPT ![s] = Advance(p)]
                  ELSE /\ outbox' = outbox
                       /\ pass' = [pass EXCEPT ![s].pc = "recordFail",
                                               ![s].err = IF db THEN "request error"
                                                          ELSE "Database not initialized"]
  /\ call' = NoCall
  /\ UNCHANGED <<service, syncInProgress, nextId, stores, creator, stats, lastEnd, rest>>

\* the catch block of the loop body: updateQueueItemStatus(id, 'failed', message);
\* an error of this call leaves the loop for the outer catch and the finally
RecordFail(s) ==
  /\ pass[s].pc = "recordFail"
  /\ QueueTurn
  /\ LET p == pass[s]
         it == p.items[p.i]
     IN \E io \in IoOutcomes :
          LET ok == db /\ io /\ it.id \in DOMAIN queue
              q2 == IF ok THEN [queue EXCEPT ![it.id] = UpdatedItem(@, "failed", p.err)] ELSE queue
          IN /\ Io(io)
             /\ queue' = q2
             /\ IF ok
                  THEN /\ outbox' = Notify(outbox, db, q2)
                       /\ pass' = [pass EXCEPT ![s] = Advance(p)]
                       /\ UNCHANGED <<syncInProgress, lastEnd>>
                  ELSE EndPass(s, q2, Len(p.items) - p.i)
  /\ call' = NoCall
  /\ UNCHANGED <<service, nextId, stores, creator, stats, rest>>

\* --------------------------------------------------- downloadServerData
\* getOrders / getCustomers / getProducts settles; an error is caught and logged
DownloadResult(s) ==
  /\ pass[s].pc = "dl"
  /\ Room(1)
  /\ \E r \in {"ok", "error"} :
       IF r = "ok"
         THEN /\ pass' = [pass EXCEPT ![s].pc = "put", ![s].j = 1,
                                      ![s].data = ServerData(remote)[pass[s].ph]]
              /\ refreshes' = IF refreshes.on /\ pass[s].ph = 1
                                THEN [refreshes EXCEPT !.cur = ServerData(remote)[1]]
                                ELSE refreshes
              /\ UNCHANGED <<syncInProgress, outbox, lastEnd>>
         ELSE /\ EndPass(s, queue, 0)
              /\ refreshes' = refreshes
  /\ call' = NoCall
  /\ UNCHANGED <<service, queue, nextId, stores, creator, faults, stats, remote, listener, cleaned, reply>>

\* saveOrderLocally / saveCustomerLocally / saveProductLocally of one record
DownloadPut(s) ==
  /\ pass[s].pc = "put"
  /\ Room(1)
  /\ LET p == pass[s]
         rec == p.data[p.j]
     IN \E io \in IoOutcomes :
          LET ok == db /\ io
          IN /\ Io(io)
             /\ orders' = IF ok /\ p.ph = 1 THEN Put(orders, rec.id, rec) ELSE orders
             /\ customers' = IF ok /\ p.ph = 2 THEN Put(customers, rec.id, rec) ELSE customers
             /\ products' = IF ok /\ p.ph = 3 THEN Put(products, rec.id, rec) ELSE products
             /\ IF ok /\ p.j < Len(p.data)
                  THEN /\ pass' = [pass EXCEPT ![s].j = p.j + 1]
                       /\ UNCHANGED <<syncInProgress, outbox, lastEnd, refreshes>>
                  ELSE IF ok /\ p.ph < Phases
                    THEN /\ pass' = [pass EXCEPT ![s].pc = "dl", ![s].ph = p.ph + 1,
                                                 ![s].j = 0, ![s].data = <<>>]
                         /\ UNCHANGED <<syncInProgress, outbox, lastEnd, refreshes>>
                    ELSE /\ EndPass(s, queue, 0)
                         /\ refreshes' = IF refreshes.on /\ ok
                                           THEN [refreshes EXCEPT
                                                   !.after = << <<orders', customers', products'>> >>,
                                                   !.prev = refreshes.cur]
                                           ELSE refreshes
  /\ call' = NoCall
  /\ UNCHANGED <<service, queue, nextId, creator, stats, remote, listener, cleaned, reply>>

\* ------------------------------------------------------- initialization
\* initializeOfflineMode after indexedDB.open succeeded: setupNetworkListeners,
\* startSyncInterval, and syncAll when navigator.onLine
InitializeOk ==
  /\ boot = "constructed"
  /\ Room(1)
  /\ boot' = "ready"
  /\ db' = TRUE
  /\ syncInterval' = TRUE
  /\ \E onLine \in BOOLEAN :
       /\ isOnline' = onLine
       /\ IF onLine
            THEN syncAll("init", TRUE, TRUE, outbox)
            ELSE /\ call' = NoCall
                 /\ UNCHANGED <<syncInProgress, pass, outbox, lastEnd>>
  /\ UNCHANGED <<maxRetryAttempts, queue, nextId, stores, creator, faults, stats, rest>>

\* indexedDB.open failed: the error is caught and logged by initializeOfflineMode
InitializeFail ==
  /\ boot = "constructed"
  /\ boot' = "failed"
  /\ call' = NoCall
  /\ UNCHANGED <<maxRetryAttempts, db, isOnline, syncInProgress, syncInterval, queue,
                 nextId, stores, creator, pass, outbox, faults, stats, lastEnd, rest>>

\* ------------------------------------------------- reachability, timer
\* the 'online' listener
OnlineEventNoSync ==
  /\ boot = "ready"
  /\ ~isOnline
  /\ Room(2)
  /\ isOnline' = TRUE
  /\ outbox' = Notify(outbox, db, queue)
  /\ call' = NoCall
  /\ UNCHANGED <<maxRetryAttempts, boot, db, syncInProgress, syncInterval, queue,
                 nextId, stores, creator, pass, faults, stats, lastEnd, rest>>

OnlineEvent ==
  /\ boot = "ready"
  /\ ~isOnline
  /\ Room(2)
  /\ isOnline' = TRUE
  /\ syncAll("online", TRUE, db, Notify(outbox, db, queue))
  /\ UNCHANGED <<maxRetryAttempts, boot, db, syncInterval, queue, nextId, stores,
                 creator, faults, stats, rest>>

\* the 'offline' listener
OfflineEvent ==
  /\ boot = "ready"
  /\ isOnline
  /\ Room(1)
  /\ isOnline' = FALSE
  /\ outbox' = Notify(outbox, db, queue)
  /\ call' = NoCall
  /\ UNCHANGED <<maxRetryAttempts, boot, db, syncInProgress, syncInterval, queue,
                 nextId, stores, creator, pass, faults, stats, lastEnd, rest>>

\* the setInterval callback, when its condition holds
TimerTick ==
  /\ syncInterval
  /\ Room(1)
  /\ isOnline /\ ~syncInProgress
  /\ syncAll("timer", isOnline, db, outbox)
  /\ UNCHANGED <<service, queue, nextId, stores, creator, faults, stats, rest>>

\* syncAll() called from outside the service
ManualSync ==
  /\ Room(1)
  /\ syncAll("manual", isOnline, db, outbox)
  /\ UNCHANGED <<service, queue, nextId, stores, creator, faults, stats, rest>>

\* cleanup(): stopSyncInterval, db.close(), db = null
Cleanup ==
  /\ db
  /\ syncInterval' = FALSE
  /\ db' = FALSE
  /\ cleaned' = TRUE
  /\ call' = NoCall
  /\ UNCHANGED <<maxRetryAttempts, boot, isOnline, syncInProgress, queue, nextId,
                 stores, creator, pass, outbox, faults, stats, lastEnd, remote, listener, refreshes, reply>>

\* ------------------------------------------------ callers of the queue
\* addToSyncQueue({type, action, data}) called from outside the service
Enqueue(type, action) ==
  /\ db
  /\ QueueTurn
  /\ nextId + (IF task.stage = "saved" THEN 1 ELSE 0) <= MaxItems
  /\ \E io \in IoOutcomes :
       LET q2 == IF io THEN Put(queue, nextId, NewItem(type, action, NoRef)) ELSE queue
       IN /\ Io(io)
          /\ queue' = q2
          /\ nextId' = IF io THEN nextId + 1 ELSE nextId
          /\ outbox' = IF io THEN Notify(outbox, db, q2) ELSE outbox
  /\ call' = NoCall
  /\ UNCHANGED <<service, syncInProgress, stores, creator, pass, stats, lastEnd, rest>>

\* deleteQueueItem(id) called from outside the service
ExternalDelete(id) ==
  /\ db
  /\ QueueTurn
  /\ id \in DOMAIN queue
  /\ queue' = Remove(queue, id)
  /\ outbox' = Notify(outbox, db, queue')
  /\ call' = NoCall
  /\ UNCHANGED <<service, syncInProgress, nextId, stores, creator, pass, faults,
                 stats, lastEnd, rest>>

\* createOfflineOrder(Drafts[d]) up to the end of saveOrderLocally
CreateSave(d) ==
  /\ db
  /\ task.stage \in {"idle", "looked", "failed"}
  /\ created < MaxCreates
  /\ nextId <= MaxItems
  /\ \E io \in IoOutcomes :
       /\ Io(io)
       /\ IF io
            THEN /\ orders' = Put(orders, OfflineId(now), OfflineOrder(d, now))
                 /\ task' = [IdleTask EXCEPT !.stage = "saved", !.draft = d, !.t = now]
                 /\ created' = created + 1
            ELSE /\ task' = [IdleTask EXCEPT !.stage = "failed"]
                 /\ UNCHANGED <<orders, created>>
  /\ call' = NoCall
  /\ UNCHANGED <<service, syncInProgress, queue, nextId, customers, products, now,
                 enqueuedFor, pass, outbox, stats, lastEnd, rest>>

\* create items of the queue whose data.localOrderId is the id made at reading t
CreateRefs(q, t) ==
  {k \in DOMAIN q : q[k].type = "order" /\ q[k].action = "create" /\ q[k].ref = OfflineId(t)}

\* createOfflineOrder from addToSyncQueue to its return
CreateEnqueue ==
  /\ task.stage = "saved"
  /\ QueueTurn
  /\ \E io \in IoOutcomes :
       LET ok == db /\ io
           q2 == IF ok THEN Put(queue, nextId, NewItem("order", "create", OfflineId(task.t))) ELSE queue
       IN /\ Io(io)
          /\ queue' = q2
          /\ nextId' = IF ok THEN nextId + 1 ELSE nextId
          /\ outbox' = IF ok THEN Notify(outbox, db, q2) ELSE outbox
          /\ task' = IF ok THEN [task EXCEPT !.stage = "returned",
                                             !.refs = Cardinality(CreateRefs(q2, task.t))]
                     ELSE [task EXCEPT !.stage = "failed"]
          /\ enqueuedFor' = IF ok THEN enqueuedFor \cup {task.t} ELSE enqueuedFor
  /\ call' = NoCall
  /\ UNCHANGED <<service, syncInProgress, stores, now, created, pass, stats, lastEnd, rest>>

\* getLocalOrderById(id) with the id createOfflineOrder returned
Lookup ==
  /\ task.stage = "returned"
  /\ db
  /\ task' = [task EXCEPT !.stage = "looked",
                          !.got = IF OfflineId(task.t) \in DOMAIN orders
                                  THEN <<orders[OfflineId(task.t)]>> ELSE <<>>]
  /\ call' = NoCall
  /\ UNCHANGED <<service, syncInProgress, queue, nextId, stores, now, created,
                 enqueuedFor, pass, outbox, faults, stats, lastEnd, rest>>

\* the clock moves on
ClockTick ==
  /\ now < MaxClock
  /\ now' = now + 1
  /\ call' = NoCall
  /\ UNCHANGED <<service, syncInProgress, queue, nextId, stores, task, created,
                 enqueuedFor, pass, outbox, faults, stats, lastEnd, rest>>

\* ------------------------------------------------------- Remote Service
\* the dataset of the Remote Service changes
RemoteChange ==
  /\ \E v \in Versions \ {remote} : remote' = v
  /\ call' = NoCall
  /\ UNCHANGED <<service, syncInProgress, queue, nextId, stores, creator, pass, outbox,
                 faults, stats, lastEnd, listener, cleaned, refreshes, reply>>

\* ------------------------------------------------------------ cleanup
\* cleanup() called while no database is open (initializeDatabase has not
\* settled, or failed): stopSyncInterval, and nothing to close
CleanupEarly ==
  /\ ~db
  /\ ~cleaned
  /\ syncInterval' = FALSE
  /\ cleaned' = TRUE
  /\ call' = NoCall
  /\ UNCHANGED <<maxRetryAttempts, boot, db, isOnline, syncInProgress, queue, nextId,
                 stores, creator, pass, outbox, faults, stats, lastEnd, remote,
                 listener, refreshes, reply>>

\* ---------------------------------------------------------- subscribers
\* subscribe(listener): listeners.add, then getSyncStatus().then(listener);
\* getSyncStatus rejects when db is null and the listener is not called
Subscribe ==
  /\ ~listener.registered
  /\ Room(1)
  /\ listener' = [listener EXCEPT !.registered = TRUE, !.got = FALSE,
                                  !.direct = IF db THEN @ \cup {Len(outbox) + 1} ELSE @]
  /\ outbox' = Notify(outbox, db, queue)
  /\ call' = NoCall
  /\ UNCHANGED <<service, syncInProgress, queue, nextId, stores, creator, pass,
                 faults, stats, lastEnd, remote, cleaned, refreshes, reply>>

\* the function subscribe returned: listeners.delete
Unsubscribe ==
  /\ listener.registered
  /\ listener' = [listener EXCEPT !.registered = FALSE, !.got = FALSE]
  /\ call' = NoCall
  /\ UNCHANGED <<service, syncInProgress, queue, nextId, stores, creator, pass, outbox,
                 faults, stats, lastEnd, remote, cleaned, refreshes, reply>>

\* ---------------------------------------------------- status broadcast
\* the oldest getSyncStatus read settles: a read of notifyListeners goes to the
\* listeners in the set, a read of subscribe to the listener it was given
Deliver ==
  /\ outbox # <<>>
  /\ outbox' = Tail(outbox)
  /\ listener' = [listener EXCEPT
                    !.got = @ \/ listener.registered,
                    !.late = @ \/ (1 \in listener.direct /\ ~listener.registered),
                    !.direct = {n - 1 : n \in @ \ {1}}]
  /\ call' = NoCall
  /\ UNCHANGED <<service, syncInProgress, queue, nextId, stores, creator, pass,
                 faults, stats, lastEnd, remote, cleaned, refreshes, reply>>

\* ------------------------------------------------ calls on a closed store
\* the public operations on the object stores and on the queue
StoreOps ==
  {"saveOrderLocally", "getLocalOrders", "getLocalOrderById", "deleteLocalOrder",
   "saveCustomerLocally", "getLocalCustomers", "saveProductLocally", "getLocalProducts",
   "addToSyncQueue", "getPendingQueueItems", "updateQueueItemStatus", "deleteQueueItem",
   "createOfflineOrder"}

\* the operations whose first statement is `if (!db) throw`
ChecksDbOnWrites ==
  {"saveOrderLocally", "deleteLocalOrder", "saveCustomerLocally", "saveProductLocally",
   "addToSyncQueue", "updateQueueItemStatus", "deleteQueueItem"}

ChecksDb == StoreOps \ {"createOfflineOrder"}

\* the first store operation a call reaches: createOfflineOrder builds the
\* order and calls saveOrderLocally
FirstStoreCall(op) == IF op = "createOfflineOrder" THEN "saveOrderLocally" ELSE op

\* what a call rejects with while db is null: the error of the check, or the
\* TypeError of db.transaction on null
ClosedError(op) ==
  IF FirstStoreCall(op) \in ChecksDb THEN "Database not initialized" ELSE "TypeError"

\* a store operation called while no database is open: it rejects before it
\* creates a transaction
ClosedCall(op) ==
  /\ ~db
  /\ reply' = [op |-> op, error |-> ClosedError(op), n |-> 1 - reply.n]
  /\ call' = NoCall
  /\ UNCHANGED <<service, syncInProgress, queue, nextId, stores, creator, pass, outbox,
                 faults, stats, lastEnd, remote, listener, cleaned, refreshes>>

\* ------------------------------------------------ storage errors go on
\* request.onerror can fire again: the count of request errors starts afresh
FaultsGoOn ==
  /\ faults > 0
  /\ faults' = 0
  /\ call' = NoCall
  /\ UNCHANGED <<service, syncInProgress, queue, nextId, stores, creator, pass, outbox,
                 stats, lastEnd, rest>>

\* ------------------------------------------------------- specifications
\* the steps of a pass
PassStep ==
  \/ \E s \in Slots : DrainNext(s)
  \/ \E s \in Slots : RemoteResult(s)
  \/ \E s \in Slots : Complete(s)
  \/ \E s \in Slots : Delete(s)
  \/ \E s \in Slots : RecordFail(s)
  \/ \E s \in Slots : DownloadResult(s)
  \/ \E s \in Slots : DownloadPut(s)

\* the sync engine, with callers that use the queue directly
Next ==
  \/ InitializeOk
  \/ InitializeFail
  \/ OnlineEvent
  \/ OfflineEvent
  \/ TimerTick
  \/ ManualSync
  \/ Cleanup
  \/ PassStep
  \/ \E k \in Kinds : Enqueue(k[1], k[2])
  \/ \E id \in 1..MaxItems : ExternalDelete(id)
  \/ Deliver

Spec == Init /\ [][Next]_vars

\* the sync engine, with a caller that creates orders offline
NextCreate ==
  \/ InitializeOk
  \/ InitializeFail
  \/ OnlineEvent
  \/ OfflineEvent
  \/ TimerTick
  \/ Cleanup
  \/ PassStep
  \/ \E d \in DraftIds : CreateSave(d)
  \/ CreateEnqueue
  \/ Lookup
  \/ ClockTick
  \/ Deliver

SpecCreate == Init /\ [][NextCreate]_vars

\* the sync engine under every retry configuration
SpecConfigured == InitConfigured /\ [][Next]_vars

\* the service with a subscriber, on an empty queue
NextSubscribe ==
  \/ InitializeOk
  \/ InitializeFail
  \/ OnlineEvent
  \/ OfflineEvent
  \/ Cleanup
  \/ \E s \in Slots : DownloadResult(s)
  \/ \E s \in Slots : DownloadPut(s)
  \/ Subscribe
  \/ Unsubscribe
  \/ Deliver

SpecSubscribe == Init /\ [][NextSubscribe]_vars

\* the service and its timer, with cleanup() callable at any time
NextTimer ==
  \/ InitializeOk
  \/ InitializeFail
  \/ CleanupEarly
  \/ Cleanup
  \/ TimerTick
  \/ OnlineEvent
  \/ OfflineEvent
  \/ \E s \in Slots : DownloadResult(s)
  \/ \E s \in Slots : DownloadPut(s)
  \/ Deliver

SpecTimer == Init /\ [][NextTimer]_vars

\* refresh runs on the stores of an earlier session, against a Remote Service
\* whose dataset may change
NextRefresh ==
  \/ InitializeOk
  \/ TimerTick
  \/ ManualSync
  \/ RemoteChange
  \/ \E s \in Slots : DownloadResult(s)
  \/ \E s \in Slots : DownloadPut(s)
  \/ Deliver

SpecRefresh == InitRefresh /\ [][NextRefresh]_vars

\* the stores and the queue, with callers that also call while no database is open
NextClosed ==
  \/ InitializeOk
  \/ InitializeFail
  \/ Cleanup
  \/ \E s \in Slots : DownloadResult(s)
  \/ \E s \in Slots : DownloadPut(s)
  \/ \E k \in Kinds : Enqueue(k[1], k[2])
  \/ \E op \in StoreOps : ClosedCall(op)
  \/ Deliver

SpecClosed == Init /\ [][NextClosed]_vars

\* the sync engine on a store that stays open, with its timer, under the
\* scheduling the host gives: every awaited call settles (a status read, a
\* store request, a Remote Service call), and the timer callback keeps running;
\* callers enqueue an item that is sent to the Remote Service and one that is not
LiveKinds == {<<"order", "create">>, <<"product", "create">>}

NextLive ==
  \/ InitializeOk
  \/ OnlineEvent
  \/ OfflineEvent
  \/ TimerTick
  \/ PassStep
  \/ \E k \in LiveKinds : Enqueue(k[1], k[2])
  \/ FaultsGoOn
  \/ Deliver

SpecLive ==
  /\ Init /\ [][NextLive]_vars
  /\ WF_vars(Deliver)
  /\ SF_vars(PassStep)
  /\ SF_vars(TimerTick)

\* =============================================================== claims
\* the keys of the items a pass fetched
SnapshotIds(s) == {pass[s].items[n].id : n \in 1..Len(pass[s].items)}

\* at most one pass is active
C1_OnePass == Cardinality(ActiveSlots) <= 1

\* a step in which syncAll() was called while syncInProgress was true
C1_BusyCall ==
  (call' # NoCall /\ call'[1].busy) =>
     /\ UNCHANGED <<syncInProgress, pass, queue, nextId, stores, creator, faults,
                    stats, lastEnd, boot, db, syncInterval>>
     /\ outbox' = IF isOnline' # isOnline THEN Notify(outbox, db, queue) ELSE outbox

\* C1 (single-flight): at most one pass is active at a time, and a syncAll()
\* call made while syncInProgress is true changes nothing: no queue item, no
\* store record, no pass, not the flag, and it starts no status broadcast
\* (the only broadcast of such a step is the one the 'online' listener makes
\* itself, before it calls syncAll).
C1_SingleFlight == []C1_OnePass /\ [][C1_BusyCall]_vars

\* C1 witness: syncAll was just called, online, while a pass of a non-empty
\* queue was waiting for its remote call
C1_Witness ==
  /\ call # NoCall /\ call[1].busy /\ call[1].online
  /\ \E s \in Slots : pass[s].pc = "remote"
  /\ PendingKeys(queue) # {}

\* C2 (FIFO drain): in every pass the items handed to the Remote Service are
\* handed over in the order they were enqueued (ascending key), and the list
\* the pass fetched is in that order too.
C2_FifoDrain ==
  \A s \in Slots :
    /\ \A a, b \in 1..Len(pass[s].sent) : a < b => pass[s].sent[a] < pass[s].sent[b]
    /\ \A a, b \in 1..Len(pass[s].items) : a < b => pass[s].items[a].id < pass[s].items[b].id

\* C2 witness: a pass has dispatched two items of different kinds
C2_Witness ==
  \E s \in Slots :
    /\ Len(pass[s].sent) = 2
    /\ pass[s].items[1].type # pass[s].items[2].type

\* a step in which syncAll() was called while isOnline was false
C3_OfflineCall == (call' # NoCall /\ ~call'[1].online) => UNCHANGED allButCall

\* C3 (offline guard): a syncAll() call that sees isOnline = FALSE changes
\* nothing: no remote call, no queue item, no store record, no flag, no
\* broadcast.
C3_OfflineGuard == [][C3_OfflineCall]_vars

\* C3 witness: syncAll was just called offline, with the store open, no pass
\* active and a pending item in the queue
C3_Witness ==
  /\ call # NoCall /\ ~call[1].online /\ ~call[1].busy
  /\ db /\ PendingKeys(queue) # {}

\* C4 (retry across passes), as claimed: with maxRetryAttempts = 3, an item
\* whose failed deliveries (one or two) have been recorded is still pending,
\* with retryCount equal to the number of failures, so that the next pass
\* dispatches it again.
C4_RetriedAcrossPasses ==
  maxRetryAttempts = 3 =>
    \A k \in DOMAIN queue :
      (stats[k].failures \in {1, 2} /\ queue[k].retryCount = stats[k].failures)
        => queue[k].status = "pending"

\* dispatches are bounded, and an item out of attempts is failed and not pending
C5_Bound ==
  \A k \in 1..MaxItems :
    /\ stats[k].dispatches <= maxRetryAttempts
    /\ k \in DOMAIN queue =>
         /\ queue[k].retryCount >= maxRetryAttempts => queue[k].status = "failed"
         /\ stats[k].failures >= maxRetryAttempts =>
              k \notin {PendingItems(queue)[n].id : n \in 1..PendingCount(queue)}

\* no step dispatches an item whose delivery failed maxRetryAttempts times
C5_NoRedispatch ==
  \A k \in 1..MaxItems :
    stats[k].failures >= maxRetryAttempts => stats'[k].dispatches = stats[k].dispatches

\* C5 (retry bound): no item is dispatched more than maxRetryAttempts times;
\* an item with maxRetryAttempts recorded failures is in status failed; an item
\* whose delivery failed maxRetryAttempts times is not among the pending items
\* (so not counted by getSyncStatus) and is never dispatched again.
C5_RetryBound == []C5_Bound /\ [][C5_NoRedispatch]_vars

\* C5 witness: an item failed maxRetryAttempts times, is in status failed, and
\* a later pass, which did not fetch it, is running
C5_Witness ==
  \E k \in DOMAIN queue, s \in Slots :
    /\ stats[k].failures >= maxRetryAttempts
    /\ queue[k].status = "failed"
    /\ pass[s].pc # "idle"
    /\ k \notin SnapshotIds(s)

\* C6 (failure isolation), as claimed: a pass that ends while the store is
\* open has processed every item it fetched.
C6_NoAbort == lastEnd.open => lastEnd.left = 0

\* C7 (completion implies delivery), as claimed: an item is marked completed
\* only after a Remote Service call for it succeeded, and no item stays in the
\* queue in status completed once the pass that marked it is over.
C7_CompletedWasDelivered ==
  /\ \A k \in 1..MaxItems : stats[k].completed => stats[k].delivered
  /\ ActiveSlots = {} => \A k \in DOMAIN queue : queue[k].status # "completed"

\* the total the claim states for draft d: the sum over the lines of
\* quantity * unitPrice * (1 - discount), times 1.15, in ten-thousandths
ClaimedTotal(d) ==
  SeqSum([k \in 1..Len(Drafts[d]) |->
            Drafts[d][k].quantity * Drafts[d][k].unitPrice * (100 - DiscountOf(Drafts[d][k]))]) * 115

\* C8 (offline-create round trip), as claimed: the record looked up under the
\* returned id has the claimed total, and when createOfflineOrder returns,
\* exactly one create item of type order refers to that id.
C8_RoundTrip ==
  /\ task.stage = "looked" =>
       /\ task.got # <<>>
       /\ task.got[1].total = ClaimedTotal(task.draft)
  /\ task.stage \in {"returned", "looked"} => task.refs = 1

\* C9 (atomic create-and-enqueue), as claimed: whenever no createOfflineOrder
\* call is between its two writes, every offline-created record has had its
\* create item enqueued.
C9_Atomic ==
  task.stage # "saved" =>
    \A t \in 0..MaxClock : OfflineId(t) \in DOMAIN orders => t \in enqueuedFor

\* C10 (unique local identifiers), as claimed: there are as many offline
\* records as createOfflineOrder calls that saved one.
C10_UniqueIds ==
  Cardinality({t \in 0..MaxClock : OfflineId(t) \in DOMAIN orders}) = created

\* ------------------------------------------------------------ C11 .. C20
\* a pass in slot s ends in this step
PassEnds(s) == pass[s].pc # "idle" /\ pass'[s].pc = "idle"

\* none of the items the pass in slot s fetched has been removed from the queue
\* other than by the pass itself
NoOutsideDelete(s) ==
  \A k \in SnapshotIds(s) : k \in DOMAIN queue' \/ stats'[k].completed

\* C11 (refresh always runs), as claimed: every pass that ends while the store
\* is open ends in its refresh phase (after the refresh was attempted, whatever
\* happened to the drain items), and every pass ends with syncInProgress false.
C11_RefreshAlwaysRuns ==
  [][\A s \in Slots :
       PassEnds(s) => /\ ~syncInProgress'
                      /\ db => pass[s].pc \in {"dl", "put"}]_vars

\* in the refresh phase every fetched item has been handled
C12_DrainDone ==
  \A s \in Slots :
    pass[s].pc \in {"dl", "put"} => pass[s].i = Len(pass[s].items) + 1

\* a dispatch is made in the drain phase and writes no store; a store is
\* written only by a pass whose drain is over
C12_Step ==
  /\ \A s \in Slots :
       Len(pass'[s].sent) > Len(pass[s].sent) => pass[s].ph = 0 /\ UNCHANGED stores
  /\ stores' # stores =>
       \E s \in Slots : pass[s].pc = "put" /\ pass[s].i = Len(pass[s].items) + 1

\* C12 (drain before refresh): in every pass every dispatch, and the recording
\* of its outcome, precedes the first refresh read and every refresh put; no
\* refresh put lies between two dispatches of a pass.
C12_DrainBeforeRefresh == []C12_DrainDone /\ [][C12_Step]_vars

\* C12 witness: a pass that dispatched two items is putting refreshed records
C12_Witness ==
  \E s \in Slots : pass[s].pc = "put" /\ Len(pass[s].sent) = 2

\* the 'offline' event leaves every pass as it is
C13_FlipKeepsPass ==
  (isOnline /\ ~isOnline') => pass' = pass /\ syncInProgress' = syncInProgress

\* a pass on a working store, none of whose items was removed from outside,
\* ends in its refresh phase with every fetched item handled: removed after
\* completion, or failed
C13_RunsToEnd ==
  \A s \in Slots :
    (PassEnds(s) /\ db /\ faults' = 0 /\ NoOutsideDelete(s)) =>
      /\ pass[s].pc \in {"dl", "put"}
      /\ pass[s].i = Len(pass[s].items) + 1
      /\ \A k \in SnapshotIds(s) : k \in DOMAIN queue' => queue'[k].status = "failed"

\* a syncAll() call that sees isOnline = FALSE starts nothing
C13_FreshCallOffline ==
  (call' # NoCall /\ ~call'[1].online) =>
    pass' = pass /\ syncInProgress' = syncInProgress /\ queue' = queue

\* C13 (no mid-drain interruption): isOnline turning false leaves the running
\* pass alone; the pass, on a working store, still handles every item it
\* fetched, to success or failure, and then refreshes, whatever isOnline became
\* meanwhile; a fresh syncAll() call made while offline is a no-op.
C13_NoInterrupt == [][C13_FlipKeepsPass /\ C13_RunsToEnd /\ C13_FreshCallOffline]_vars

\* C13 witness: while offline, a pass of two items is waiting for the remote
\* call of its second item
C13_Witness ==
  /\ ~isOnline /\ db /\ faults = 0
  /\ \E s \in Slots : pass[s].pc = "remote" /\ pass[s].i = 2 /\ Len(pass[s].items) = 2

\* every item the pass in slot s fetched is a create item of type order
AllCreateOrders(s) ==
  \A n \in 1..Len(pass[s].items) :
    pass[s].items[n].type = "order" /\ pass[s].items[n].action = "create"

\* C14 (successful drain empties the queue): a pass that fetched N create-order
\* items, all of whose createOrder calls succeeded, on a working store from
\* which nobody else removed an item, ends having made exactly one createOrder
\* call per item, in enqueue order, and with none of the items in the queue.
C14_DrainEmpties ==
  [][\A s \in Slots :
       (/\ PassEnds(s) /\ db /\ faults' = 0 /\ NoOutsideDelete(s)
        /\ AllCreateOrders(s)
        /\ \A k \in SnapshotIds(s) : stats'[k].failures = 0)
       => /\ pass[s].sent = [n \in 1..Len(pass[s].items) |-> pass[s].items[n].id]
          /\ \A k \in SnapshotIds(s) :
               k \notin DOMAIN queue' /\ stats'[k].dispatches = 1 /\ stats'[k].delivered]_vars

\* C14 witness: a pass that fetched two create-order items has dispatched
\* both, the queue is empty and the pass is at the last put of its refresh
C14_Witness ==
  /\ db /\ faults = 0 /\ queue = Empty
  /\ \E s \in Slots :
       /\ pass[s].pc = "put" /\ pass[s].ph = Phases
       /\ Len(pass[s].items) = 2 /\ AllCreateOrders(s)
       /\ pass[s].sent = <<1, 2>>
       /\ \A k \in 1..2 : stats[k].delivered /\ stats[k].failures = 0

\* C15 (pending count): the pendingItems of every status read that has not
\* settled yet is the number of queue items in status pending; failed, syncing
\* and completed items are not counted.
C15_PendingCount ==
  \A n \in 1..Len(outbox) :
    outbox[n] = Cardinality({k \in DOMAIN queue : queue[k].status = "pending"})

\* C15 witness: a status read is outstanding while the queue holds a pending
\* item and an item that is failed or syncing
C15_Witness ==
  /\ outbox # <<>>
  /\ \E k \in DOMAIN queue : queue[k].status = "pending"
  /\ \E k \in DOMAIN queue : queue[k].status \in {"failed", "syncing"}

\* C16 (broadcast on every observable change), as claimed: every step that
\* changes the pending count, the syncing flag or (by an online or offline
\* event) the online flag starts a status read for the listeners.
C16_BroadcastOnChange ==
  [][(\/ boot = "ready" /\ isOnline' # isOnline
      \/ syncInProgress' # syncInProgress
      \/ PendingCount(queue') # PendingCount(queue))
     => Len(outbox') > Len(outbox)]_vars

\* C17 (subscribe delivers the current status), as claimed: a registered
\* listener has been handed a status, or a status read is on its way to it.
C17_SubscribeDelivers ==
  (listener.registered /\ ~listener.got) => outbox # <<>>

\* the 'online' event calls syncAll at once, the 'offline' event starts nothing
C18_Step ==
  /\ (~isOnline /\ isOnline') =>
       /\ call' # NoCall
       /\ call'[1].by = "online" /\ call'[1].online
       /\ (~call'[1].busy /\ db) =>
            /\ syncInProgress'
            /\ \E s \in Slots : pass[s].pc = "idle" /\ pass'[s].pc # "idle"
  /\ (isOnline /\ ~isOnline') =>
       pass' = pass /\ syncInProgress' = syncInProgress /\ call' = NoCall

\* C18 (online transition triggers sync): every offline-to-online transition
\* sets isOnline and calls syncAll() in the same step; when no pass is active
\* a pass starts in that step (syncInProgress becomes true); an offline
\* transition starts no pass.
C18_OnlineTriggersSync == [][C18_Step]_vars

\* C18 witness: the 'online' event has just started a pass on a queue with a
\* pending item
C18_Witness ==
  /\ call # NoCall /\ call[1].by = "online" /\ ~call[1].busy
  /\ isOnline /\ syncInProgress /\ db
  /\ \E s \in Slots : pass[s].pc = "drain" /\ pass[s].i = 1

\* C19 (periodic trigger), as claimed: a tick calls syncAll() only when online
\* and idle, and then a pass starts; after cleanup() no timer is left to tick.
C19_PeriodicTrigger ==
  /\ [](cleaned => ~syncInterval)
  /\ [][(call' # NoCall /\ call'[1].by = "timer") =>
          /\ call'[1].online /\ ~call'[1].busy
          /\ syncInProgress'
          /\ \E s \in Slots : pass[s].pc = "idle" /\ pass'[s].pc # "idle"]_vars

\* the pass in slot s completes a refresh run in this step, every read and
\* every put of the run having succeeded
RefreshCompletes(s) ==
  /\ PassEnds(s)
  /\ pass[s].pc = "put" /\ pass[s].ph = Phases
  /\ db /\ faults' = faults

\* C20 (idempotent refresh): a complete refresh run that follows a complete
\* refresh run and fetched the same dataset leaves orders, customers and
\* products as the earlier run left them, whatever the stores held at first.
C20_IdempotentRefresh ==
  [][\A s \in Slots :
       (/\ RefreshCompletes(s)
        /\ refreshes.on /\ refreshes.after # <<>>
        /\ refreshes.prev = refreshes.cur)
       => <<orders', customers', products'>> = refreshes.after[1]]_vars

\* C20 witness: on stores that held an offline order and a product of an
\* earlier session, one refresh run is complete and a second run, which
\* fetched the same dataset, is at its last put
C20_Witness ==
  /\ OfflineId(0) \in DOMAIN orders /\ <<"product", 2>> \in DOMAIN products
  /\ refreshes.on /\ refreshes.after # <<>> /\ refreshes.prev = refreshes.cur
  /\ \E s \in Slots : pass[s].pc = "put" /\ pass[s].ph = Phases

\* ------------------------------------------------------------ C21 .. C30

\* C21 (initialization failure propagates): a failed open of the local store
\* never ends as an error that initializeOfflineMode caught and logged
\* (boot = "failed": the caller of getInstance is handed a working-looking
\* instance and no error), and as long as the store has not been opened no
\* timer is armed and no pass runs.
C21_NothingStarted ==
  boot # "ready" => (~db /\ ~syncInterval /\ ~syncInProgress /\ ActiveSlots = {})

C21_InitFailurePropagates == boot # "failed" /\ C21_NothingStarted

\* C23 (drain visibility): the list a pass fetches holds exactly the items
\* whose status is pending at the fetch, and stays as fetched for the whole
\* pass; a step changes the status of an item or dispatches it only if the
\* item is the one a running pass has reached in its fetched list; an item
\* enqueued while a pass runs is not in the list of that pass.
C23_DrainVisibility ==
  [][/\ \A s \in Slots :
          /\ (pass[s].pc = "idle" /\ pass'[s].pc # "idle")
               => SnapshotIds(s)' = {k \in DOMAIN queue : queue[k].status = "pending"}
          /\ (pass[s].pc # "idle" /\ pass'[s].pc # "idle")
               => pass'[s].items = pass[s].items
          /\ \A k \in DOMAIN queue' \ DOMAIN queue :
               (pass[s].pc # "idle") => k \notin SnapshotIds(s)'
     /\ \A k \in 1..MaxItems :
          (\/ stats'[k].dispatches # stats[k].dispatches
           \/ (k \in DOMAIN queue /\ k \in DOMAIN queue' /\ queue'[k].status # queue[k].status))
          => \E s \in Slots : /\ pass[s].pc # "idle"
                              /\ pass[s].i <= Len(pass[s].items)
                              /\ pass[s].items[pass[s].i].id = k]_vars

\* C23 witness: a pass is at the head of a list that holds item 2 only, while
\* item 1, failed in an earlier pass, is still in the queue
C23_Witness ==
  /\ 1 \in DOMAIN queue /\ queue[1].status = "failed"
  /\ \E s \in Slots : pass[s].pc = "drain" /\ SnapshotIds(s) = {2}

\* C24 (retryCount discipline): an item enters the queue with retryCount 0;
\* no step lowers the retryCount of an item; a step that changes it raises it
\* by exactly 1 and leaves the item in status failed; a step that sets an item
\* to syncing or completed leaves its retryCount as it was.
C24_RetryCountDiscipline ==
  [][/\ \A k \in DOMAIN queue' \ DOMAIN queue : queue'[k].retryCount = 0
     /\ \A k \in DOMAIN queue \cap DOMAIN queue' :
          /\ queue'[k].retryCount >= queue[k].retryCount
          /\ queue'[k].retryCount # queue[k].retryCount
               => (/\ queue'[k].retryCount = queue[k].retryCount + 1
                   /\ queue'[k].status = "failed")
          /\ (queue'[k].status # queue[k].status /\ queue'[k].status \in {"syncing", "completed"})
               => queue'[k].retryCount = queue[k].retryCount]_vars

\* C24 witness: an item went through syncing, its delivery failed and the
\* failure was recorded: retryCount 1, status failed
C24_Witness ==
  \E k \in DOMAIN queue :
    queue[k].status = "failed" /\ queue[k].retryCount = 1 /\ stats[k].failures = 1

\* C26 (at most one delivery attempt per item): with maxRetryAttempts >= 1 and
\* statuses changed by syncAll only, no item is dispatched to the Remote
\* Service more than once over all passes and no retryCount exceeds 1; once a
\* failed delivery has been recorded on a working store the item is failed
\* with retryCount 1; a pass never fetches an item that was dispatched before.
C26_Recorded ==
  \A k \in DOMAIN queue :
    (/\ stats[k].failures = 1
     /\ db /\ faults = 0
     /\ \A s \in ActiveSlots : pass[s].i > Len(pass[s].items) \/ pass[s].items[pass[s].i].id # k)
    => (queue[k].status = "failed" /\ queue[k].retryCount = 1)

C27_NoStranded ==
  (~syncInProgress /\ ActiveSlots = {})
    => \A k \in DOMAIN queue : queue[k].status \in {"pending", "failed"}

\* C25 (every pass returns to idle): the syncing flag is set exactly while a
\* pass is between its guard and its finally block, and the step in which a
\* pass finishes clears the flag and starts a status broadcast.
C25_FlagExact == syncInProgress <=> ActiveSlots # {}

C25_ReturnsToIdle ==
  /\ []C25_FlagExact
  /\ [][\A s \in Slots :
          PassEnds(s) => (~syncInProgress' /\ Len(outbox') = Len(outbox) + 1)]_vars

\* C22 (not initialized): a store or queue operation called while no database
\* is open, before the open has completed or after cleanup(), rejects with the
\* error 'Database not initialized', and the step of the call leaves the queue,
\* its key generator and the three stores as they were.
C22_NotInitialized ==
  /\ [](reply # NoReply => reply.error = "Database not initialized")
  /\ [][reply' # reply
          => (~db /\ UNCHANGED <<queue, nextId, orders, customers, products>>)]_vars

\* C22 witness: after cleanup(), with an item in the queue and the orders of a
\* refresh in the store, createOfflineOrder has been called and has rejected
C22_Witness ==
  /\ cleaned /\ ~db
  /\ queue # Empty /\ orders # Empty
  /\ reply.op = "createOfflineOrder"

\* C28 (unsubscribe stops delivery): a listener is never called while it is
\* out of the listeners set, neither by a broadcast nor by the status read its
\* own subscribe call started.
C28_UnsubscribeStops == ~listener.late

\* C29 (sync leaves offline-created records untouched): every order record
\* with an 'offline' id has syncStatus pending, and a step other than a
\* createOfflineOrder save (a drain step, a refresh step, an event) leaves
\* every such record in the store exactly as it was, also after the create
\* item of the order has been delivered and deleted.
OfflineIds(store) == {id \in DOMAIN store : id[1] = "offline"}

C29_OfflineUntouched ==
  /\ [](\A id \in OfflineIds(orders) :
          orders[id].id = id /\ orders[id].syncStatus = "pending")
  /\ [][created' = created
          => \A id \in OfflineIds(orders) :
               id \in DOMAIN orders' /\ orders'[id] = orders[id]]_vars

\* C29 witness: the create item of an offline order has been delivered and
\* deleted, the refresh has put the server's order next to it, and the
\* offline record is still in the store
C29_Witness ==
  /\ OfflineIds(orders) # {}
  /\ <<"order", 1>> \in DOMAIN orders
  /\ queue = Empty /\ enqueuedFor # {}
  /\ \E k \in 1..MaxItems : stats[k].delivered /\ stats[k].completed

\* item k is in the queue with status pending
Pending(k) == k \in DOMAIN queue /\ queue[k].status = "pending"

====
